---- MODULE Spec2Model ----
(***************************************************************************)
(* Model of the locus-app emotion write path and cell aggregation:         *)
(*   emotionsRouter.add / delete          (server/api/routers/emotions.ts) *)
(*   emotionService.scheduleAggregateUpdate, updateAggregateForCell,       *)
(*   bulkUpdateAggregates, cleanupExpiredEmotions                          *)
(*                                  (server/services/emotion-service.ts)   *)
(*   mapRouter.getCellDetails read of the aggregate (routers/seasonal.ts)  *)
(*                                                                         *)
(* Time is counted in whole seconds (every time constant of the code is a  *)
(* multiple of 1000 ms).  Real-valued results are kept as exact fractions  *)
(* [num, den]; 0/0 (JavaScript NaN) is the fraction with den = 0.          *)
(***************************************************************************)
EXTENDS Integers, Sequences, FiniteSets, Bags, TLC

VARIABLES
    now,          \* the wall clock, seconds
    advances,     \* number of clock steps taken (bounds the run)
    entries,      \* table emotionEntry: a set of rows
    nextId,       \* next emotionEntry id
    aggregates,   \* table emotionAggregate: h3Index -> <<>> or <<row>>
    pendingAdds,  \* emotions.add calls between their count and their create
    timers,       \* setTimeout callbacks not yet run: bag of [h3Index, due]
    tasks,        \* updateAggregateForCell calls between fetch and upsert/delete
    acceptsNaN,   \* whether the store takes a NaN in a Float column (fixed per deployment)
    bulkCalls,    \* number of direct bulkUpdateAggregates calls made (bounds the run)
    lastOutcome,  \* h3Index -> how the last finished updateAggregateForCell ended
    acceptedToday,\* history: user -> cell -> submissions accepted this calendar day
    streak,       \* history: h3Index -> progress of back-to-back undisturbed recomputes
    traced,       \* history: whether the replies of the calls are recorded in this run
    accounts,     \* table user: the ids that have a row (and, by cascade, may hold a session)
    lastReply     \* history: what the last router or sweeper call answered

vars == <<now, advances, entries, nextId, aggregates, pendingAdds, timers, tasks,
          acceptsNaN, bulkCalls, lastOutcome, acceptedToday, streak, traced, accounts,
          lastReply>>

(***************************************************************************)
(* Bounds of the model.                                                    *)
(***************************************************************************)
MaxEntries == 2       \* emotionEntry rows ever created
MaxAdvances == 2      \* clock steps
MaxTimers == 2        \* setTimeout callbacks pending at once
MaxTasks == 2         \* updateAggregateForCell calls in flight at once
MaxBulkCalls == 2     \* direct bulkUpdateAggregates calls
RecencyScale == 64    \* fixed-point unit of the recency weight

(***************************************************************************)
(* Program constants.                                                      *)
(***************************************************************************)
Null == -1                 \* expiresAt: null
TimerDelaySec == 1         \* setTimeout(..., 1000)
HourSec == 3600            \* 60 * 60 * 1000 ms
DaySec == 86400            \* 1000 * 60 * 60 * 24 ms
HalfLifeDays == 30         \* env.HALF_LIFE_DAYS default
DailyCellLimit == 3        \* todayCount >= 3
PresenceDivisor == 300     \* dwellSeconds / 300
PresenceCap == 2           \* Math.min(..., 2)
RecentDays == 7            \* ageDays <= 7
OlderDays == 30            \* ageDays <= 30
DefaultReputation == 10    \* reputation 1.0, in tenths
MaxIntensity == 100        \* intensity: z.number().int().min(0).max(100)
MinTtlHours == 1           \* ttlHours: z.number().int().min(1)
MaxTtlHours == 168         \* ttlHours: .max(168)
MaxTileCells == 1000       \* cells.length > 1000
DefaultLimit == 20         \* limit: z.number().int().min(1).max(50).default(20)

Users == {"u1", "u2"}
Cells == {"c1", "c2"}
BadCells == {"bad"}        \* strings h3Service.isValidH3Index rejects
Anonymous == "anonymous"   \* a caller without a session

\* the emotions.add inputs the model submits (note and tags carry no behaviour):
\* a permanent entry, an entry with the default dwellSeconds, a volatile entry
Permanent ==
    [emotion |-> "JOY", intensity |-> 50, dwellSeconds |-> 300, ttlHours |-> Null,
     visibility |-> "PUBLIC"]
NoDwell ==
    [emotion |-> "SADNESS", intensity |-> 50, dwellSeconds |-> 0, ttlHours |-> Null,
     visibility |-> "PUBLIC"]
Volatile ==
    [emotion |-> "SADNESS", intensity |-> 50, dwellSeconds |-> 300, ttlHours |-> 1,
     visibility |-> "PUBLIC"]

\* an entry of ten minutes' dwell, and an entry only its owner may read
LongDwell ==
    [emotion |-> "HOPE", intensity |-> 50, dwellSeconds |-> 600, ttlHours |-> Null,
     visibility |-> "PUBLIC"]
Secret ==
    [emotion |-> "SADNESS", intensity |-> 50, dwellSeconds |-> 300, ttlHours |-> Null,
     visibility |-> "PRIVATE"]

\* an entry asked to live one hour longer than the schema allows
TooLong ==
    [emotion |-> "SADNESS", intensity |-> 50, dwellSeconds |-> 300,
     ttlHours |-> MaxTtlHours + 1, visibility |-> "PUBLIC"]

\* the zod input schema of emotions.add, on the fields the model carries
ValidInput(input) ==
    /\ input.intensity >= 0
    /\ input.intensity <= MaxIntensity
    /\ input.dwellSeconds >= 0
    /\ \/ input.ttlHours = Null
       \/ input.ttlHours >= MinTtlHours /\ input.ttlHours <= MaxTtlHours

\* EMOTION_VALENCE, in tenths
EMOTION_VALENCE(emotion) ==
    CASE emotion = "JOY" -> 8
      [] emotion = "SERENITY" -> 6
      [] emotion = "SURPRISE" -> 2
      [] emotion = "NOSTALGIA" -> 1
      [] emotion = "FEAR" -> -7
      [] emotion = "SADNESS" -> -6
      [] emotion = "ANGER" -> -8
      [] emotion = "HOPE" -> 7
      [] emotion = "GRATITUDE" -> 9
      [] emotion = "ANXIETY" -> -5

getEmotionValence(emotion) == EMOTION_VALENCE(emotion)

isValidH3Index(h3Index) == h3Index \in Cells

(***************************************************************************)
(* Exact fractions.                                                        *)
(***************************************************************************)
Abs(x) == IF x < 0 THEN -x ELSE x

RECURSIVE GCD(_, _)
GCD(a, b) == IF b = 0 THEN a ELSE GCD(b, a % b)

NaN == [num |-> 0, den |-> 0]

\* n / d as JavaScript divides numbers: 0/0 is NaN
Div(n, d) ==
    IF d = 0 THEN NaN
    ELSE LET g == GCD(Abs(n), Abs(d))
             s == IF d < 0 THEN -1 ELSE 1
         IN [num |-> s * (n \div g), den |-> s * (d \div g)]

IsNaN(x) == x.den = 0

Num(n) == [num |-> n, den |-> 1]

\* x * k for an integer k
Scale(x, k) == IF IsNaN(x) THEN NaN ELSE Div(x.num * k, x.den)

Sub(x, y) ==
    IF IsNaN(x) \/ IsNaN(y) THEN NaN
    ELSE Div(x.num * y.den - y.num * x.den, x.den * y.den)

Less(x, y) == x.num * y.den < y.num * x.den

RECURSIVE SumSeq(_)
SumSeq(s) == IF s = <<>> THEN 0 ELSE Head(s) + SumSeq(Tail(s))

RECURSIVE Pow2(_)
Pow2(k) == IF k = 0 THEN 1 ELSE 2 * Pow2(k - 1)

(***************************************************************************)
(* updateAggregateForCell: the fetch and the pure computation on it.       *)
(***************************************************************************)
\* the filter with gte in place of gt: a row expiring at this very instant is kept
IsLiveGte(e, t) == e.expiresAt = Null \/ e.expiresAt >= t

\* where: OR [{expiresAt: null}, {expiresAt: {gt: new Date()}}]
IsLive(e, t) == e.expiresAt = Null \/ e.expiresAt > t

\* a fetch that keeps the PUBLIC rows only
LiveEntriesPublic(h3Index, t) ==
    {e \in entries : e.h3Index = h3Index /\ IsLive(e, t) /\ e.visibility = "PUBLIC"}

\* where: {h3Index, OR: [...]}: no condition on visibility
LiveEntries(h3Index, t) == {e \in entries : e.h3Index = h3Index /\ IsLive(e, t)}

RECURSIVE SeqById(_)
SeqById(S) ==
    IF S = {} THEN <<>>
    ELSE LET e == CHOOSE x \in S : \A y \in S : x.id <= y.id
         IN <<e>> \o SeqById(S \ {e})

\* db.emotionEntry.findMany (no orderBy: rows come back in insertion order)
FindManyLive(h3Index, t) == SeqById(LiveEntries(h3Index, t))

AgeSec(e, t) == t - e.createdAt

\* Math.exp(-lambda * ageDays) = 2^(-age/halfLife), in units of 1/RecencyScale:
\* exact at whole half-lives, interpolated linearly (per hour) between them
RecencyWeight(e, t) ==
    LET halfLifeHours == HalfLifeDays * 24
        k == AgeSec(e, t) \div (halfLifeHours * HourSec)
        r == (AgeSec(e, t) % (halfLifeHours * HourSec)) \div HourSec
    IN (RecencyScale * (2 * halfLifeHours - r)) \div (2 * halfLifeHours * Pow2(k))

\* emotion.user.reputation, in tenths (set to 1.0 on createUser, never changed)
TrustWeight(e) == DefaultReputation

\* Math.min(emotion.dwellSeconds / 300, 2), in units of 1/300
PresenceWeight(e) ==
    IF e.dwellSeconds < PresenceCap * PresenceDivisor
    THEN e.dwellSeconds ELSE PresenceCap * PresenceDivisor

TotalEntryWeight(e, t) == RecencyWeight(e, t) * TrustWeight(e) * PresenceWeight(e)

Weights(emotions, t) == [i \in 1..Len(emotions) |-> TotalEntryWeight(emotions[i], t)]

TotalWeight(emotions, t) == SumSeq(Weights(emotions, t))

WeightedValence(emotions, t) ==
    SumSeq([i \in 1..Len(emotions) |-> emotions[i].valence * TotalEntryWeight(emotions[i], t)])

WeightedIntensity(emotions, t) ==
    SumSeq([i \in 1..Len(emotions) |-> emotions[i].intensity * TotalEntryWeight(emotions[i], t)])

\* valence is kept in tenths
MeanValence(emotions, t) == Div(WeightedValence(emotions, t), 10 * TotalWeight(emotions, t))

MeanIntensity(emotions, t) == Div(WeightedIntensity(emotions, t), TotalWeight(emotions, t))

\* keys of emotionCounts in insertion order: each kind where it first occurs
RECURSIVE KindOrder(_)
KindOrder(emotions) ==
    IF emotions = <<>> THEN <<>>
    ELSE LET init == KindOrder(SubSeq(emotions, 1, Len(emotions) - 1))
             k == emotions[Len(emotions)].emotion
         IN IF \E i \in 1..Len(init) : init[i] = k THEN init ELSE Append(init, k)

\* emotionCounts[kind]
EmotionCount(emotions, t, kind) ==
    SumSeq([i \in 1..Len(emotions) |->
              IF emotions[i].emotion = kind THEN TotalEntryWeight(emotions[i], t) ELSE 0])

\* Object.entries(emotionCounts).reduce((a, b) => counts[a] > counts[b] ? a : b)
RECURSIVE ReduceDominant(_, _, _)
ReduceDominant(kinds, emotions, t) ==
    IF Len(kinds) = 1 THEN kinds[1]
    ELSE LET a == ReduceDominant(SubSeq(kinds, 1, Len(kinds) - 1), emotions, t)
             b == kinds[Len(kinds)]
         IN IF EmotionCount(emotions, t, a) > EmotionCount(emotions, t, b) THEN a ELSE b

DominantEmotion(emotions, t) == ReduceDominant(KindOrder(emotions), emotions, t)

\* distribution[emotion] = (weight / totalEmotionWeight) * 100
Distribution(emotions, t) ==
    LET kinds == KindOrder(emotions)
        total == SumSeq([i \in 1..Len(kinds) |-> EmotionCount(emotions, t, kinds[i])])
    IN {<<kinds[i], Div(EmotionCount(emotions, t, kinds[i]) * 100, total)>> : i \in 1..Len(kinds)}

\* coherence = 1 - entropy / maxEntropy.  log2 is kept exact where it is rational:
\*   one key: entropy 0, maxEntropy log2(1) = 0, so 1 - 0/0 is NaN;
\*   shares that are NaN or 0 add nothing to the entropy (p > 0 is false);
\*   m equal positive shares among n keys: 1 - log2(m)/log2(n), exact for m = 1, m = n;
\* otherwise the value is left as the function of the shares that it is.
Coherence(distribution) ==
    LET n == Cardinality(distribution)
        positive == {d \in distribution : d[2].den # 0 /\ d[2].num > 0}
        m == Cardinality(positive)
        equal == \A d1, d2 \in positive : d1[2] = d2[2]
    IN IF n = 1 THEN [exact |-> TRUE, value |-> NaN, shares |-> {}]
       ELSE IF m <= 1 THEN [exact |-> TRUE, value |-> Num(1), shares |-> {}]
       ELSE IF equal /\ m = n THEN [exact |-> TRUE, value |-> Num(0), shares |-> {}]
       ELSE [exact |-> FALSE, value |-> NaN, shares |-> distribution]

\* the recent bucket with < in place of <=: an entry aged exactly 7 days is left out
RecentEmotionsStrict(emotions, t) ==
    SelectSeq(emotions, LAMBDA e : AgeSec(e, t) < RecentDays * DaySec)

\* emotions.filter(e => ageDays <= 7) and emotions.filter(e => ageDays > 7 && ageDays <= 30)
RecentEmotions(emotions, t) ==
    SelectSeq(emotions, LAMBDA e : AgeSec(e, t) <= RecentDays * DaySec)

OlderEmotions(emotions, t) ==
    SelectSeq(emotions, LAMBDA e : AgeSec(e, t) > RecentDays * DaySec
                                   /\ AgeSec(e, t) <= OlderDays * DaySec)

\* unweighted mean of valence (tenths)
AvgValence(es) == Div(SumSeq([i \in 1..Len(es) |-> es[i].valence]), 10 * Len(es))

\* Math.max(-1, Math.min(1, x))
Clamp(x) == IF Less(x, Num(-1)) THEN Num(-1) ELSE IF Less(Num(1), x) THEN Num(1) ELSE x

Trend(emotions, t) ==
    LET recent == RecentEmotions(emotions, t)
        older == OlderEmotions(emotions, t)
    IN IF Len(recent) > 0 /\ Len(older) > 0
       THEN Clamp(Scale(Sub(AvgValence(recent), AvgValence(older)), 2))
       ELSE Num(0)

\* emotions.reduce((latest, current) => current.createdAt > latest.createdAt ? ...)
RECURSIVE LastEntryAt(_)
LastEntryAt(emotions) ==
    IF Len(emotions) = 1 THEN emotions[1].createdAt
    ELSE LET latest == LastEntryAt(SubSeq(emotions, 1, Len(emotions) - 1))
             current == emotions[Len(emotions)].createdAt
         IN IF current > latest THEN current ELSE latest

\* the same fields, with lastEntryAt taken from the first row fetched instead of the latest
ComputeAggregateFirstRow(h3Index, emotions, t) ==
    [h3Index |-> h3Index,
     dominantEmotion |-> DominantEmotion(emotions, t),
     meanValence |-> MeanValence(emotions, t),
     meanIntensity |-> MeanIntensity(emotions, t),
     distribution |-> Distribution(emotions, t),
     coherence |-> Coherence(Distribution(emotions, t)),
     trend |-> Trend(emotions, t),
     entryCount |-> Len(emotions),
     lastEntryAt |-> emotions[1].createdAt]

\* the fields handed to db.emotionAggregate.upsert, computed at time t
ComputeAggregate(h3Index, emotions, t) ==
    [h3Index |-> h3Index,
     dominantEmotion |-> DominantEmotion(emotions, t),
     meanValence |-> MeanValence(emotions, t),
     meanIntensity |-> MeanIntensity(emotions, t),
     distribution |-> Distribution(emotions, t),
     coherence |-> Coherence(Distribution(emotions, t)),
     trend |-> Trend(emotions, t),
     entryCount |-> Len(emotions),
     lastEntryAt |-> LastEntryAt(emotions)]

(***************************************************************************)
(* State.                                                                  *)
(***************************************************************************)
NoStreak == [n |-> 0, at |-> 0, same |-> TRUE]

\* no reply yet
NoReply == [op |-> "none", caller |-> "none", target |-> "none", code |-> "none",
            count |-> 0, at |-> 0, tiles |-> 0, includePrivate |-> FALSE, rows |-> {}]

\* the reply of a call, kept when replies are recorded; at is the time of a sweep
Reply(op, caller, target, code, count) ==
    IF traced
    THEN [op |-> op, caller |-> caller, target |-> target, code |-> code,
          count |-> count, at |-> IF op = "cleanup" THEN now ELSE 0, tiles |-> 0,
          includePrivate |-> FALSE, rows |-> {}]
    ELSE lastReply

EmptyStore ==
    /\ now = 0
    /\ advances = 0
    /\ entries = {}
    /\ nextId = 1
    /\ aggregates = [c \in Cells |-> <<>>]
    /\ accounts = Users
    /\ pendingAdds = EmptyBag
    /\ timers = EmptyBag
    /\ tasks = EmptyBag
    /\ acceptsNaN \in BOOLEAN
    /\ bulkCalls = 0
    /\ lastOutcome = [c \in Cells |-> "none"]
    /\ acceptedToday = [u \in Users |-> [c \in Cells |-> 0]]
    /\ streak = [c \in Cells |-> NoStreak]
    /\ lastReply = NoReply

Init == EmptyStore /\ traced = FALSE

\* the same start, with the replies recorded
InitReply == EmptyStore /\ traced = TRUE

One(x) == SetToBag({x})

\* today.setHours(0, 0, 0, 0)
StartOfDay(t) == t - (t % DaySec)

\* ctx.db.emotionEntry.count({userId, h3Index, createdAt: {gte: today, lt: tomorrow}})
TodayCount(userId, h3Index, t) ==
    Cardinality({e \in entries : /\ e.userId = userId
                                 /\ e.h3Index = h3Index
                                 /\ e.createdAt >= StartOfDay(t)
                                 /\ e.createdAt < StartOfDay(t) + DaySec})

\* input.ttlHours ? new Date(Date.now() + input.ttlHours * 60 * 60 * 1000) : null
ExpiresAt(ttlHours, t) == IF ttlHours # Null /\ ttlHours # 0 THEN t + ttlHours * HourSec ELSE Null

\* history: an entry write to the cell ends any run of undisturbed recomputes
Disturbed(cs) == [c \in Cells |-> IF c \in cs THEN NoStreak ELSE streak[c]]

\* emotionService.scheduleAggregateUpdate: one more setTimeout callback, no coalescing
scheduleAggregateUpdate(h3Index) == timers (+) One([h3Index |-> h3Index, due |-> now + TimerDelaySec])

(***************************************************************************)
(* emotionsRouter.add                                                      *)
(***************************************************************************)
\* a row of default content for a user and a cell
NewEntryOf(userId, h3Index, id) ==
    [id |-> id, userId |-> userId, h3Index |-> h3Index, emotion |-> "JOY",
     intensity |-> 50, valence |-> getEmotionValence("JOY"), dwellSeconds |-> 0,
     visibility |-> "PUBLIC", createdAt |-> now, expiresAt |-> Null]

\* the input fails the schema: the procedure rejects it before the handler runs
AddInvalidInput(userId, h3Index, input) ==
    /\ ~ValidInput(input)
    /\ lastReply' = Reply("add", userId, h3Index, "BAD_REQUEST", 0)
    /\ UNCHANGED <<now, advances, entries, nextId, aggregates, pendingAdds, timers,
                   tasks, lastOutcome, acceptedToday, streak, bulkCalls, acceptsNaN,
                   traced, accounts>>

\* the cell check placed after the create: the row is written, then the call is rejected
AddInvalidCreates(userId, h3Index) ==
    /\ ~isValidH3Index(h3Index)
    /\ entries' = entries \cup {NewEntryOf(userId, h3Index, nextId)}
    /\ nextId' = nextId + 1
    /\ lastReply' = Reply("add", userId, h3Index, "BAD_REQUEST", 0)
    /\ UNCHANGED <<now, advances, aggregates, pendingAdds, timers,
                   tasks, lastOutcome, acceptedToday, streak, bulkCalls, acceptsNaN,
                   traced, accounts>>

AddInvalid(userId, h3Index) ==
    /\ ~isValidH3Index(h3Index)
    /\ lastReply' = Reply("add", userId, h3Index, "BAD_REQUEST", 0)
    /\ UNCHANGED <<now, advances, entries, nextId, aggregates, pendingAdds, timers,
                   tasks, lastOutcome, acceptedToday, streak, bulkCalls, acceptsNaN,
                   traced, accounts>>

AddRateLimited(userId, h3Index) ==
    /\ isValidH3Index(h3Index)
    /\ TodayCount(userId, h3Index, now) >= DailyCellLimit
    /\ lastReply' = Reply("add", userId, h3Index, "TOO_MANY_REQUESTS", 0)
    /\ UNCHANGED <<now, advances, entries, nextId, aggregates, pendingAdds, timers,
                   tasks, lastOutcome, acceptedToday, streak, bulkCalls, acceptsNaN,
                   traced, accounts>>

\* the checks and the count pass: the call goes on to its create
AddCount(userId, h3Index, input, quota) ==
    /\ ValidInput(input)
    /\ isValidH3Index(h3Index)
    /\ TodayCount(userId, h3Index, now) < DailyCellLimit
    /\ nextId + BagCardinality(pendingAdds) <= quota
    /\ pendingAdds' = pendingAdds (+) One([userId |-> userId, h3Index |-> h3Index,
                                           input |-> input,
                                           prior |-> acceptedToday[userId][h3Index]])
    /\ UNCHANGED <<now, advances, entries, nextId, aggregates, timers, tasks,
                   lastOutcome, acceptedToday, streak, bulkCalls, acceptsNaN,
                   traced, accounts, lastReply>>

NewEntry(p, id, t) ==
    [id |-> id, userId |-> p.userId, h3Index |-> p.h3Index, emotion |-> p.input.emotion,
     intensity |-> p.input.intensity, valence |-> getEmotionValence(p.input.emotion),
     dwellSeconds |-> p.input.dwellSeconds, visibility |-> p.input.visibility,
     createdAt |-> t, expiresAt |-> ExpiresAt(p.input.ttlHours, t)]

\* emotionEntry.create, then scheduleAggregateUpdate, then the reply
AddCreate(p) ==
    /\ BagIn(p, pendingAdds)
    /\ BagCardinality(timers) < MaxTimers
    /\ pendingAdds' = pendingAdds (-) One(p)
    /\ entries' = entries \cup {NewEntry(p, nextId, now)}
    /\ nextId' = nextId + 1
    /\ timers' = scheduleAggregateUpdate(p.h3Index)
    /\ acceptedToday' = [acceptedToday EXCEPT ![p.userId][p.h3Index] = @ + 1]
    /\ streak' = Disturbed({p.h3Index})
    /\ lastReply' = Reply("add", p.userId, p.h3Index, "OK", nextId)
    /\ UNCHANGED <<now, advances, aggregates, tasks, lastOutcome, bulkCalls, acceptsNaN,
                   traced, accounts>>

(***************************************************************************)
(* emotionsRouter.delete                                                   *)
(***************************************************************************)
DeleteNotFound(userId, id) ==
    /\ ~\E e \in entries : e.id = id
    /\ lastReply' = Reply("delete", userId, "none", "NOT_FOUND", id)
    /\ UNCHANGED <<now, advances, entries, nextId, aggregates, pendingAdds, timers,
                   tasks, lastOutcome, acceptedToday, streak, bulkCalls, acceptsNaN,
                   traced, accounts>>

\* the ownership check placed after the delete: the row goes, then the call is rejected
DeleteForbiddenRemoves(userId, id) ==
    /\ \E e \in entries : e.id = id /\ e.userId # userId
    /\ entries' = {e \in entries : e.id # id}
    /\ lastReply' = Reply("delete", userId, "none", "FORBIDDEN", id)
    /\ UNCHANGED <<now, advances, nextId, aggregates, pendingAdds, timers,
                   tasks, lastOutcome, acceptedToday, streak, bulkCalls, acceptsNaN,
                   traced, accounts>>

DeleteForbidden(userId, id) ==
    /\ \E e \in entries : e.id = id /\ e.userId # userId
    /\ lastReply' = Reply("delete", userId, "none", "FORBIDDEN", id)
    /\ UNCHANGED <<now, advances, entries, nextId, aggregates, pendingAdds, timers,
                   tasks, lastOutcome, acceptedToday, streak, bulkCalls, acceptsNaN,
                   traced, accounts>>

Delete(userId, id) ==
    \E e \in entries :
        /\ e.id = id
        /\ e.userId = userId
        /\ BagCardinality(timers) < MaxTimers
        /\ entries' = entries \ {e}
        /\ timers' = scheduleAggregateUpdate(e.h3Index)
        /\ streak' = Disturbed({e.h3Index})
        /\ lastReply' = Reply("delete", userId, e.h3Index, "OK", id)
        /\ UNCHANGED <<now, advances, nextId, aggregates, pendingAdds, tasks, lastOutcome,
                       acceptedToday, bulkCalls, acceptsNaN,
                   traced, accounts>>

(***************************************************************************)
(* emotionsRouter.getByCell                                                *)
(***************************************************************************)
\* where: {h3Index, OR: [expiresAt null, expiresAt > new Date()], visibility: PUBLIC}
PublicWhere(e, h3Index, t) ==
    /\ e.h3Index = h3Index
    /\ e.expiresAt = Null \/ e.expiresAt > t
    /\ e.visibility = "PUBLIC"

\* whereClause.OR = [{visibility: PUBLIC}, {AND: [{visibility: PRIVATE}, {userId}]}]:
\* the assignment replaces the OR on expiresAt, so no condition on expiry is left
PrivateWhere(e, h3Index, userId, t) ==
    /\ e.h3Index = h3Index
    /\ \/ e.visibility = "PUBLIC"
       \/ e.visibility = "PRIVATE" /\ e.userId = userId

\* the own-private branch filtering on PRIVATE alone, whoever owns the row
WhereClauseAnyPrivate(e, caller, h3Index, includePrivate, t) ==
    IF ~includePrivate \/ caller = Anonymous
    THEN PublicWhere(e, h3Index, t)
    ELSE e.h3Index = h3Index

\* if (!input.includePrivate || !ctx.session) ... else if (input.includePrivate && ctx.session)
WhereClause(e, caller, h3Index, includePrivate, t) ==
    IF ~includePrivate \/ caller = Anonymous
    THEN PublicWhere(e, h3Index, t)
    ELSE PrivateWhere(e, h3Index, caller, t)

\* orderBy: {createdAt: 'desc'}, take: limit: the limit newest matching rows, any of
\* the rows of equal createdAt where the limit cuts through them
Take(matching, limit) ==
    {R \in SUBSET matching :
        /\ Cardinality(R) = IF Cardinality(matching) < limit THEN Cardinality(matching) ELSE limit
        /\ \A r \in R, x \in matching \ R : r.createdAt >= x.createdAt}

\* the reply of getByCell (the aggregate read along with the rows is not kept)
ByCellReply(caller, h3Index, includePrivate, code, rows) ==
    IF traced
    THEN [op |-> "getByCell", caller |-> caller, target |-> h3Index, code |-> code,
          count |-> Cardinality(rows), at |-> now, tiles |-> 0,
          includePrivate |-> includePrivate, rows |-> rows]
    ELSE lastReply

\* if (!h3Service.isValidH3Index(input.h3Index)) throw BAD_REQUEST
GetByCellInvalid(caller, h3Index, includePrivate) ==
    /\ ~isValidH3Index(h3Index)
    /\ lastReply' = ByCellReply(caller, h3Index, includePrivate, "BAD_REQUEST", {})
    /\ UNCHANGED <<now, advances, entries, nextId, aggregates, pendingAdds, timers, tasks,
                   lastOutcome, acceptedToday, streak, bulkCalls, acceptsNaN, traced,
                   accounts>>

\* the query: findMany under the where clause, newest first, at most limit rows
GetByCell(caller, h3Index, includePrivate, limit) ==
    /\ isValidH3Index(h3Index)
    /\ \E rows \in Take({e \in entries : WhereClause(e, caller, h3Index, includePrivate, now)},
                        limit) :
          lastReply' = ByCellReply(caller, h3Index, includePrivate, "OK", rows)
    /\ UNCHANGED <<now, advances, entries, nextId, aggregates, pendingAdds, timers, tasks,
                   lastOutcome, acceptedToday, streak, bulkCalls, acceptsNaN, traced,
                   accounts>>

(***************************************************************************)
(* userRouter.deleteAccount                                                *)
(***************************************************************************)
\* the rows that go with a user row: "This will cascade delete all related data due to
\* foreign key constraints"
EntriesOf(userId) == {e \in entries : e.userId = userId}

\* ctx.db.user.delete({where: {id: ctx.session.user.id}}); return {success: true}.
\* The caller holds a session, so has a row; nothing is scheduled for the cells.
deleteAccount(userId) ==
    /\ userId \in accounts
    /\ accounts' = accounts \ {userId}
    /\ entries' = entries \ EntriesOf(userId)
    /\ streak' = Disturbed({e.h3Index : e \in EntriesOf(userId)})
    /\ lastReply' = Reply("deleteAccount", userId, "none", "OK", 0)
    /\ UNCHANGED <<now, advances, nextId, aggregates, pendingAdds, timers, tasks,
                   lastOutcome, acceptedToday, bulkCalls, acceptsNaN, traced>>

(***************************************************************************)
(* emotionService.cleanupExpiredEmotions                                   *)
(***************************************************************************)
\* deleteMany where expiresAt < new Date()
Expired(t) == {e \in entries : e.expiresAt # Null /\ e.expiresAt < t}

cleanupExpiredEmotions ==
    /\ entries' = entries \ Expired(now)
    /\ streak' = Disturbed({e.h3Index : e \in Expired(now)})
    /\ lastReply' = Reply("cleanup", "none", "none", "OK", Cardinality(Expired(now)))
    /\ UNCHANGED <<now, advances, nextId, aggregates, pendingAdds, timers, tasks,
                   lastOutcome, acceptedToday, bulkCalls, acceptsNaN,
                   traced, accounts>>

(***************************************************************************)
(* The clock.                                                              *)
(***************************************************************************)
ClockSteps == {TimerDelaySec, HourSec}

Advance(d) ==
    /\ advances < MaxAdvances
    /\ now' = now + d
    /\ advances' = advances + 1
    /\ acceptedToday' = IF StartOfDay(now + d) # StartOfDay(now)
                        THEN [u \in Users |-> [c \in Cells |-> 0]]
                        ELSE acceptedToday
    /\ UNCHANGED <<entries, nextId, aggregates, pendingAdds, timers, tasks, lastOutcome,
                   streak, bulkCalls, acceptsNaN,
                   traced, accounts, lastReply>>

(***************************************************************************)
(* emotionService.updateAggregateForCell, run from a timer or directly     *)
(***************************************************************************)
TasksOf(h3Index) == {k \in BagToSet(tasks) : k.h3Index = h3Index}

TimersOf(h3Index) == {t \in BagToSet(timers) : t.h3Index = h3Index}

\* the call up to the end of its findMany and the reading of now that follows it: the
\* rows fetched and the time read (the clock counts whole seconds, and both reads of
\* new Date() fall in one)
NewTask(h3Index) ==
    [h3Index |-> h3Index,
     emotions |-> FindManyLive(h3Index, now),
     now |-> now]

\* history: streak[c].n counts the steps of two calls made one after the other with no
\* entry write and no other call of the cell in between (1 first fetched, 2 first
\* finished, 3 second fetched, 4 second finished); at is the time the first call read,
\* same whether the second call read the same time
StreakAtFetch(h3Index) ==
    IF TasksOf(h3Index) # {} THEN NoStreak
    ELSE IF streak[h3Index].n = 2
         THEN [n |-> 3, at |-> streak[h3Index].at, same |-> now = streak[h3Index].at]
    ELSE [n |-> 1, at |-> now, same |-> TRUE]

StreakAtFinish(h3Index) ==
    IF streak[h3Index].n \in {1, 3}
    THEN [streak[h3Index] EXCEPT !.n = @ + 1]
    ELSE streak[h3Index]

\* the setTimeout callback: updateAggregateForCell(h3Index) up to its fetch
FireTimer(t) ==
    /\ BagIn(t, timers)
    /\ t.due <= now
    /\ BagCardinality(tasks) < MaxTasks
    /\ timers' = timers (-) One(t)
    /\ tasks' = tasks (+) One(NewTask(t.h3Index))
    /\ streak' = [streak EXCEPT ![t.h3Index] = StreakAtFetch(t.h3Index)]
    /\ UNCHANGED <<now, advances, entries, nextId, aggregates, pendingAdds, lastOutcome,
                   acceptedToday, bulkCalls, acceptsNaN,
                   traced, accounts, lastReply>>

\* bulkUpdateAggregates([h3Index]): updateAggregateForCell called directly, up to its fetch
bulkUpdateAggregates(h3Index) ==
    /\ BagCardinality(tasks) < MaxTasks
    /\ bulkCalls < MaxBulkCalls
    /\ bulkCalls' = bulkCalls + 1
    /\ tasks' = tasks (+) One(NewTask(h3Index))
    /\ streak' = [streak EXCEPT ![h3Index] = StreakAtFetch(h3Index)]
    /\ UNCHANGED <<now, advances, entries, nextId, aggregates, pendingAdds, timers,
                   lastOutcome, acceptedToday, acceptsNaN,
                   traced, accounts, lastReply>>

\* if (emotions.length === 0)
IsEmptyFetch(emotions) == Len(emotions) = 0

\* the empty branch returning without its delete: the row stays
DeleteAggregateSkipped(old) == old

\* db.emotionAggregate.delete({where: {h3Index}}): the row, if any, is gone
DeleteAggregate(old) == <<>>

\* .catch(() => {}): a delete that finds no row throws, and the throw is swallowed
DeleteOutcome(old) == IF old = <<>> THEN "absent" ELSE "deleted"

\* an update branch that increments entryCount instead of setting it
UpsertIncrement(old, data, t) ==
    IF old = <<>>
    THEN <<[h3Index |-> data.h3Index, dominantEmotion |-> data.dominantEmotion,
            meanValence |-> data.meanValence, meanIntensity |-> data.meanIntensity,
            distribution |-> data.distribution, coherence |-> data.coherence,
            trend |-> data.trend, entryCount |-> data.entryCount,
            lastEntryAt |-> data.lastEntryAt, updatedAt |-> t]>>
    ELSE <<[old[1] EXCEPT !.dominantEmotion = data.dominantEmotion,
                          !.meanValence = data.meanValence,
                          !.meanIntensity = data.meanIntensity,
                          !.distribution = data.distribution,
                          !.coherence = data.coherence,
                          !.trend = data.trend,
                          !.entryCount = @ + data.entryCount,
                          !.lastEntryAt = data.lastEntryAt,
                          !.updatedAt = t]>>

\* db.emotionAggregate.upsert: create, or update of every computed field
Upsert(old, data, t) ==
    IF old = <<>>
    THEN <<[h3Index |-> data.h3Index, dominantEmotion |-> data.dominantEmotion,
            meanValence |-> data.meanValence, meanIntensity |-> data.meanIntensity,
            distribution |-> data.distribution, coherence |-> data.coherence,
            trend |-> data.trend, entryCount |-> data.entryCount,
            lastEntryAt |-> data.lastEntryAt, updatedAt |-> t]>>
    ELSE <<[old[1] EXCEPT !.dominantEmotion = data.dominantEmotion,
                          !.meanValence = data.meanValence,
                          !.meanIntensity = data.meanIntensity,
                          !.distribution = data.distribution,
                          !.coherence = data.coherence,
                          !.trend = data.trend,
                          !.entryCount = data.entryCount,
                          !.lastEntryAt = data.lastEntryAt,
                          !.updatedAt = t]>>

\* a computed row with a NaN column: 0/0 from a zero total weight, or from the
\* entropy of a single kind
HasNaN(data) ==
    \/ IsNaN(data.meanValence)
    \/ IsNaN(data.meanIntensity)
    \/ \E d \in data.distribution : IsNaN(d[2])
    \/ data.coherence.exact /\ IsNaN(data.coherence.value)

\* an empty branch whose delete has no where clause: every aggregate goes
FinishDeleteAll(k) ==
    /\ BagIn(k, tasks)
    /\ IsEmptyFetch(k.emotions)
    /\ tasks' = tasks (-) One(k)
    /\ aggregates' = [c \in Cells |-> <<>>]
    /\ lastOutcome' = [lastOutcome EXCEPT ![k.h3Index] = DeleteOutcome(aggregates[k.h3Index])]
    /\ streak' = [streak EXCEPT ![k.h3Index] = StreakAtFinish(k.h3Index)]
    /\ UNCHANGED <<now, advances, entries, nextId, pendingAdds, timers, acceptedToday,
                   bulkCalls, acceptsNaN,
                   traced, accounts, lastReply>>

\* the empty branch: delete the aggregate and return
FinishDelete(k) ==
    /\ BagIn(k, tasks)
    /\ IsEmptyFetch(k.emotions)
    /\ tasks' = tasks (-) One(k)
    /\ aggregates' = [aggregates EXCEPT ![k.h3Index] = DeleteAggregate(@)]
    /\ lastOutcome' = [lastOutcome EXCEPT ![k.h3Index] = DeleteOutcome(aggregates[k.h3Index])]
    /\ streak' = [streak EXCEPT ![k.h3Index] = StreakAtFinish(k.h3Index)]
    /\ UNCHANGED <<now, advances, entries, nextId, pendingAdds, timers, acceptedToday,
                   bulkCalls, acceptsNaN,
                   traced, accounts, lastReply>>

\* the computation on the fetched rows and the upsert of its result
FinishUpsert(k) ==
    /\ BagIn(k, tasks)
    /\ ~IsEmptyFetch(k.emotions)
    /\ HasNaN(ComputeAggregate(k.h3Index, k.emotions, k.now)) => acceptsNaN
    /\ tasks' = tasks (-) One(k)
    /\ aggregates' = [aggregates EXCEPT ![k.h3Index] =
                         Upsert(@, ComputeAggregate(k.h3Index, k.emotions, k.now), now)]
    /\ lastOutcome' = [lastOutcome EXCEPT ![k.h3Index] = "upserted"]
    /\ streak' = [streak EXCEPT ![k.h3Index] = StreakAtFinish(k.h3Index)]
    /\ UNCHANGED <<now, advances, entries, nextId, pendingAdds, timers, acceptedToday,
                   bulkCalls, acceptsNaN,
                   traced, accounts, lastReply>>

\* a store that refuses NaN in a Float column: the upsert throws, nothing is written,
\* and the error goes to the caller (.catch(console.error) under the timer)
FinishUpsertRefused(k) ==
    /\ BagIn(k, tasks)
    /\ ~IsEmptyFetch(k.emotions)
    /\ HasNaN(ComputeAggregate(k.h3Index, k.emotions, k.now))
    /\ ~acceptsNaN
    /\ tasks' = tasks (-) One(k)
    /\ lastOutcome' = [lastOutcome EXCEPT ![k.h3Index] = "error"]
    /\ streak' = [streak EXCEPT ![k.h3Index] = StreakAtFinish(k.h3Index)]
    /\ UNCHANGED <<now, advances, entries, nextId, aggregates, pendingAdds, timers,
                   acceptedToday, bulkCalls, acceptsNaN,
                   traced, accounts, lastReply>>

(***************************************************************************)
(* Store errors: findMany or upsert rejects; scheduleAggregateUpdate's     *)
(* .catch(console.error) logs the error and the call is over.              *)
(***************************************************************************)
\* a fetch error that also costs the cell its aggregate
FetchFailsClears(t) ==
    /\ BagIn(t, timers)
    /\ t.due <= now
    /\ timers' = timers (-) One(t)
    /\ aggregates' = [aggregates EXCEPT ![t.h3Index] = <<>>]
    /\ lastOutcome' = [lastOutcome EXCEPT ![t.h3Index] = "fetch error"]
    /\ streak' = Disturbed({t.h3Index})
    /\ UNCHANGED <<now, advances, entries, nextId, pendingAdds, tasks,
                   acceptedToday, bulkCalls, acceptsNaN, traced, accounts, lastReply>>

FetchFails(t) ==
    /\ BagIn(t, timers)
    /\ t.due <= now
    /\ timers' = timers (-) One(t)
    /\ lastOutcome' = [lastOutcome EXCEPT ![t.h3Index] = "fetch error"]
    /\ streak' = Disturbed({t.h3Index})
    /\ UNCHANGED <<now, advances, entries, nextId, aggregates, pendingAdds, tasks,
                   acceptedToday, bulkCalls, acceptsNaN,
                   traced, accounts, lastReply>>

\* an upsert error that rolls the cell's newest entry back
UpsertFailsRollsBack(k) ==
    /\ BagIn(k, tasks)
    /\ ~IsEmptyFetch(k.emotions)
    /\ tasks' = tasks (-) One(k)
    /\ entries' = entries \ {k.emotions[Len(k.emotions)]}
    /\ lastOutcome' = [lastOutcome EXCEPT ![k.h3Index] = "error"]
    /\ streak' = Disturbed({k.h3Index})
    /\ UNCHANGED <<now, advances, nextId, aggregates, pendingAdds, timers,
                   acceptedToday, bulkCalls, acceptsNaN, traced, accounts, lastReply>>

UpsertFails(k) ==
    /\ BagIn(k, tasks)
    /\ ~IsEmptyFetch(k.emotions)
    /\ tasks' = tasks (-) One(k)
    /\ lastOutcome' = [lastOutcome EXCEPT ![k.h3Index] = "error"]
    /\ streak' = Disturbed({k.h3Index})
    /\ UNCHANGED <<now, advances, entries, nextId, aggregates, pendingAdds, timers,
                   acceptedToday, bulkCalls, acceptsNaN,
                   traced, accounts, lastReply>>

(***************************************************************************)
(* mapRouter.getTiles over h3Service.getCellsInBounds                      *)
(***************************************************************************)
\* latitudes a viewport is drawn from
Latitudes == {-1, 0, 1}

\* what polyfill (h3-js) does with a polygon: it throws, or it returns n cells, known
\* being those of them the store may hold an aggregate for
Polyfills ==
    {[threw |-> TRUE, n |-> 0, known |-> {}]} \cup
    {[threw |-> FALSE, n |-> n, known |-> known] :
        n \in {0, 1, MaxTileCells, MaxTileCells + 1},
        known \in {{}, {"c1"}}}

\* getCellsInBounds: try { return polyfill(polygon, res) } catch { return [] }
getCellsInBounds(polyfill) ==
    IF polyfill.threw THEN [n |-> 0, known |-> {}]
    ELSE [n |-> polyfill.n, known |-> IF polyfill.n = 0 THEN {} ELSE polyfill.known]

\* the reply of getTiles: count is cells.length, tiles is tiles.length
TilesReply(polyfill, code, tiles) ==
    IF traced
    THEN [op |-> "getTiles", caller |-> "none",
          target |-> IF polyfill.threw THEN "threw" ELSE "enumerated",
          code |-> code, count |-> getCellsInBounds(polyfill).n, at |-> 0, tiles |-> tiles,
          includePrivate |-> FALSE, rows |-> {}]
    ELSE lastReply

\* if (input.bounds.south >= input.bounds.north) throw BAD_REQUEST
GetTilesInvalidBounds(south, north) ==
    /\ south >= north
    /\ lastReply' = IF traced THEN [NoReply EXCEPT !.op = "getTiles", !.code = "BAD_REQUEST"]
                    ELSE lastReply
    /\ UNCHANGED <<now, advances, entries, nextId, aggregates, pendingAdds, timers,
                   tasks, lastOutcome, acceptedToday, streak, bulkCalls, acceptsNaN,
                   traced, accounts>>

\* if (cells.length > 1000) throw BAD_REQUEST
GetTilesTooLarge(south, north, polyfill) ==
    /\ south < north
    /\ getCellsInBounds(polyfill).n > MaxTileCells
    /\ lastReply' = TilesReply(polyfill, "BAD_REQUEST", 0)
    /\ UNCHANGED <<now, advances, entries, nextId, aggregates, pendingAdds, timers,
                   tasks, lastOutcome, acceptedToday, streak, bulkCalls, acceptsNaN,
                   traced, accounts>>

\* the tiles: one per cell with an aggregate, or one per cell if includeEmpty
GetTiles(south, north, polyfill, includeEmpty) ==
    LET cells == getCellsInBounds(polyfill)
        found == {c \in cells.known : aggregates[c] # <<>>}
    IN /\ south < north
       /\ cells.n <= MaxTileCells
       /\ lastReply' = TilesReply(polyfill, "OK",
                                  IF includeEmpty THEN cells.n ELSE Cardinality(found))
       /\ UNCHANGED <<now, advances, entries, nextId, aggregates, pendingAdds, timers,
                      tasks, lastOutcome, acceptedToday, streak, bulkCalls, acceptsNaN,
                      traced, accounts>>

(***************************************************************************)
(* Specifications.                                                         *)
(***************************************************************************)
RouterStep(scope) ==
    \/ \E u \in scope.submitters \cap accounts, c \in BadCells : AddInvalid(u, c)
    \/ \E u \in scope.submitters \cap accounts, c \in scope.cells, input \in scope.inputs :
           AddCount(u, c, input, scope.quota)
    \/ \E p \in BagToSet(pendingAdds) : p.userId \in accounts /\ AddCreate(p)
    \/ \E u \in scope.users \cap accounts, id \in 1..scope.quota : DeleteNotFound(u, id)
    \/ \E u \in scope.users \cap accounts, id \in 1..scope.quota : DeleteForbidden(u, id)
    \/ \E u \in scope.users \cap accounts, id \in 1..scope.quota : Delete(u, id)
    \/ \E t \in BagToSet(timers) : FireTimer(t)

EngineStep(scope) ==
    \/ cleanupExpiredEmotions
    \/ \E d \in ClockSteps : Advance(d)
    \/ \E k \in BagToSet(tasks) : FinishDelete(k)
    \/ \E k \in BagToSet(tasks) : FinishUpsert(k)
    \/ \E k \in BagToSet(tasks) : FinishUpsertRefused(k)

\* the rejection at the daily limit, reachable where the scope allows DailyCellLimit rows
LimitStep(scope) ==
    \E u \in scope.submitters \cap accounts, c \in scope.cells : AddRateLimited(u, c)

\* the rejection of an input by the schema
InputStep(scope) ==
    \E u \in scope.submitters \cap accounts, c \in scope.cells, input \in scope.inputs :
        AddInvalidInput(u, c, input)

\* an operator's direct recompute of a cell
BulkStep(scope) == \E c \in scope.cells : bulkUpdateAggregates(c)

\* one cell: u1 submits and deletes, u2 tries to delete
CellScope ==
    [users |-> Users, submitters |-> {"u1"}, cells |-> {"c1"},
     inputs |-> {Permanent, NoDwell, Volatile}, quota |-> MaxEntries]

Next == RouterStep(CellScope) \/ EngineStep(CellScope)

\* the write path, the timers, the sweeper and the clock, interleaved, from the empty store
Spec == Init /\ [][Next]_vars

\* the stores emotions.add can have built by time 0: rows 1..n, one per accepted input
RECURSIVE Stores(_, _)
Stores(scope, n) ==
    IF n = 0 THEN {{}}
    ELSE {S \cup {NewEntry([userId |-> u, h3Index |-> c, input |-> input], n, 0)} :
            S \in Stores(scope, n - 1), u \in scope.submitters, c \in scope.cells,
            input \in scope.inputs}

InitEngine ==
    /\ now = 0
    /\ advances = 0
    /\ entries \in UNION {Stores(CellScope, n) : n \in 0..MaxEntries}
    /\ nextId = Cardinality(entries) + 1
    /\ aggregates = [c \in Cells |-> <<>>]
    /\ accounts = Users
    /\ pendingAdds = EmptyBag
    /\ timers = EmptyBag
    /\ tasks = EmptyBag
    /\ acceptsNaN \in BOOLEAN
    /\ bulkCalls = 0
    /\ lastOutcome = [c \in Cells |-> "none"]
    /\ acceptedToday = [u \in Users |-> [c \in Cells |->
                          Cardinality({e \in entries : e.userId = u /\ e.h3Index = c})]]
    /\ streak = [c \in Cells |-> NoStreak]
    /\ traced = FALSE
    /\ lastReply = NoReply

NextEngine == BulkStep(CellScope) \/ EngineStep(CellScope)

\* direct recomputes, the sweeper and the clock, on every store of up to MaxEntries rows
SpecEngine == InitEngine /\ [][NextEngine]_vars

\* one cell whose entries never expire and all carry weight
RaceScope ==
    [users |-> Users, submitters |-> {"u1"}, cells |-> {"c1"},
     inputs |-> {Permanent}, quota |-> MaxEntries]

NextRace ==
    \/ RouterStep(RaceScope)
    \/ \E d \in ClockSteps : Advance(d)
    \/ \E k \in BagToSet(tasks) : FinishDelete(k)
    \/ \E k \in BagToSet(tasks) : FinishUpsert(k)

\* submissions, deletes and the recomputes they schedule, interleaved
SpecRace == Init /\ [][NextRace]_vars

\* store errors added to the write path and the timers
FaultStep ==
    \/ \E t \in BagToSet(timers) : FetchFails(t)
    \/ \E k \in BagToSet(tasks) : UpsertFails(k)

NextFault == Next \/ FaultStep

SpecFault == Init /\ [][NextFault]_vars

\* one user and one cell, with room for one submission past the daily limit
GateScope ==
    [users |-> Users, submitters |-> {"u1"}, cells |-> {"c1"},
     inputs |-> {NoDwell}, quota |-> DailyCellLimit + 1]

NextGate == RouterStep(GateScope) \/ LimitStep(GateScope) \/ EngineStep(GateScope)

SpecGate == Init /\ [][NextGate]_vars

\* one cell up to its daily limit, with an input the schema refuses
ReplyScope ==
    [users |-> Users, submitters |-> {"u1"}, cells |-> {"c1"},
     inputs |-> {Volatile, TooLong}, quota |-> DailyCellLimit]

NextReply ==
    \/ RouterStep(ReplyScope)
    \/ LimitStep(ReplyScope)
    \/ InputStep(ReplyScope)
    \/ EngineStep(ReplyScope)

\* the write path, the timers, the sweeper and the clock, with every reply recorded
SpecReply == InitReply /\ [][NextReply]_vars

\* the read of the map
TilesStep ==
    \/ \E south, north \in Latitudes : GetTilesInvalidBounds(south, north)
    \/ \E south, north \in Latitudes, polyfill \in Polyfills :
           GetTilesTooLarge(south, north, polyfill)
    \/ \E south, north \in Latitudes, polyfill \in Polyfills, includeEmpty \in BOOLEAN :
           GetTiles(south, north, polyfill, includeEmpty)

InitTiles ==
    /\ now = 0
    /\ advances = 0
    /\ entries \in UNION {Stores(RaceScope, n) : n \in 0..MaxEntries}
    /\ nextId = Cardinality(entries) + 1
    /\ aggregates = [c \in Cells |-> <<>>]
    /\ accounts = Users
    /\ pendingAdds = EmptyBag
    /\ timers = EmptyBag
    /\ tasks = EmptyBag
    /\ acceptsNaN \in BOOLEAN
    /\ bulkCalls = 0
    /\ lastOutcome = [c \in Cells |-> "none"]
    /\ acceptedToday = [u \in Users |-> [c \in Cells |->
                          Cardinality({e \in entries : e.userId = u /\ e.h3Index = c})]]
    /\ streak = [c \in Cells |-> NoStreak]
    /\ traced = TRUE
    /\ lastReply = NoReply

NextTiles == TilesStep \/ BulkStep(RaceScope) \/ EngineStep(RaceScope)

\* the map read against direct recomputes, the sweeper and the clock
SpecTiles == InitTiles /\ [][NextTiles]_vars

(***************************************************************************)
(* Properties.                                                             *)
(***************************************************************************)
\* the calls of updateAggregateForCell that fetch, and that finish, in a step
Fetching == {k \in BagToSet(tasks') : CopiesIn(k, tasks') > CopiesIn(k, tasks)}

Finishing == {k \in BagToSet(tasks) : CopiesIn(k, tasks') < CopiesIn(k, tasks)}

StoredIn(h3Index) == {e \in entries : e.h3Index = h3Index}

\* not expired at time t, written out as the claims word it
Unexpired(e, t) == e.expiresAt = Null \/ e.expiresAt > t

FetchedUnexpired(k) == {i \in 1..Len(k.emotions) : Unexpired(k.emotions[i], k.now)}

\* nothing is scheduled, running or half-way through a submission
Quiescent == timers = EmptyBag /\ tasks = EmptyBag /\ pendingAdds = EmptyBag

\* timers and running calls of a cell, counted with multiplicity
Pending(h3Index) ==
    BagCardinality([t \in TimersOf(h3Index) |-> CopiesIn(t, timers)])
        + BagCardinality([k \in TasksOf(h3Index) |-> CopiesIn(k, tasks)])

PendingAfter(h3Index) ==
    BagCardinality([t \in {x \in BagToSet(timers') : x.h3Index = h3Index} |->
                        CopiesIn(t, timers')])
        + BagCardinality([k \in {x \in BagToSet(tasks') : x.h3Index = h3Index} |->
                        CopiesIn(k, tasks')])

\* C1 as claimed: once every scheduled recompute of a cell has completed, the stored
\* aggregate is that of the cell's live entries: entryCount is their number and the
\* aggregate is absent exactly when there are none.
C1_Converged ==
    \A c \in Cells :
        Quiescent =>
            /\ aggregates[c] = <<>> <=> LiveEntries(c, now) = {}
            /\ aggregates[c] # <<>> =>
                   aggregates[c][1].entryCount = Cardinality(LiveEntries(c, now))

\* C2 as claimed: a cell with no live entry has no stored aggregate, also after its
\* last entry has passed its expiresAt by the clock; stated for states with nothing
\* scheduled or running.
C2_NoLiveNoAggregate ==
    \A c \in Cells :
        (Quiescent /\ \A e \in StoredIn(c) : ~Unexpired(e, now)) => aggregates[c] = <<>>

\* C3 as claimed: a step that removes an expired entry of a cell from the store leaves
\* one more recompute of that cell scheduled.
C3_SweepSchedules ==
    [][\A c \in Cells :
          (\E e \in Expired(now) : e.h3Index = c /\ e \notin entries') =>
              PendingAfter(c) > Pending(c)]_vars

\* C4 as claimed: a submission that passes the daily check was preceded by fewer than
\* three accepted submissions of its user to its cell that day, whatever has been
\* deleted since.
C4_FourthRejected ==
    \A p \in BagToSet(pendingAdds) : p.prior < DailyCellLimit

\* C5 as claimed: the triggers of one cell that arrive within one window of
\* TimerDelaySec stand for one scheduled execution: no cell has two callbacks pending
\* whose due times are less than a window apart.
C5_Coalesced ==
    \A t \in BagToSet(timers) :
        /\ CopiesIn(t, timers) = 1
        /\ \A u \in TimersOf(t.h3Index) :
               u # t => Abs(u.due - t.due) >= TimerDelaySec

\* the ways a recompute ends in error
Errors == {"error", "fetch error"}

\* C6 as claimed: a recompute that ends in a store error stays scheduled: the step
\* that ends it in error does not lower the number of recomputes pending for its cell.
C6_FailedRecomputeRetried ==
    [][\A c \in Cells :
          (lastOutcome'[c] \in Errors /\ (timers' # timers \/ tasks' # tasks)) =>
              PendingAfter(c) >= Pending(c)]_vars

\* C7: a recompute never holds a fetched entry whose expiresAt is at or before the
\* time it read, and the aggregate it stores has entryCount, distribution keys and
\* dominantEmotion drawn from the fetched entries that are unexpired at that time only.
C7_ExpiredExcluded ==
    [][/\ \A k \in Fetching :
             \A i \in 1..Len(k.emotions) : Unexpired(k.emotions[i], k.now)
       /\ \A k \in Finishing :
             LET after == aggregates'[k.h3Index]
                 kinds == {k.emotions[i].emotion : i \in FetchedUnexpired(k)}
             IN (after # aggregates[k.h3Index] /\ after # <<>>) =>
                    /\ after[1].entryCount = Cardinality(FetchedUnexpired(k))
                    /\ {d[1] : d \in after[1].distribution} = kinds
                    /\ after[1].dominantEmotion \in kinds]_vars

\* C7 witness: a stored aggregate counts fewer entries than the cell stores, one of the
\* stored entries having expired by the time of the write and still awaiting the sweep.
C7_Witness ==
    \E c \in Cells :
        /\ aggregates[c] # <<>>
        /\ aggregates[c][1].entryCount < Cardinality(StoredIn(c))
        /\ \E e \in StoredIn(c) :
               e.expiresAt # Null /\ e.expiresAt <= aggregates[c][1].updatedAt

\* C8: the fetch of a recompute is empty exactly when the cell stores no unexpired
\* entry, and a recompute whose fetch was empty ends with the cell's aggregate absent,
\* no entry changed and no error, whether or not an aggregate was stored before.
C8_EmptyCellDeletes ==
    [][/\ \A k \in Fetching :
             IsEmptyFetch(k.emotions) <=>
                 ~\E e \in StoredIn(k.h3Index) : Unexpired(e, now)
       /\ \A k \in Finishing :
             IsEmptyFetch(k.emotions) =>
                 /\ aggregates'[k.h3Index] = <<>>
                 /\ lastOutcome'[k.h3Index] \in {"deleted", "absent"}
                 /\ entries' = entries]_vars

\* C8 witness: a recompute has deleted the stored aggregate of a cell whose entries
\* have all expired and are still stored.
C8_Witness ==
    \E c \in Cells :
        /\ lastOutcome[c] = "deleted"
        /\ aggregates[c] = <<>>
        /\ StoredIn(c) # {}
        /\ \A e \in StoredIn(c) : ~Unexpired(e, now)

\* the stored aggregate compared on every field but updatedAt
SameAggregate(a, b) ==
    \/ a = <<>> /\ b = <<>>
    \/ /\ a # <<>>
       /\ b # <<>>
       /\ a[1].dominantEmotion = b[1].dominantEmotion
       /\ a[1].meanValence = b[1].meanValence
       /\ a[1].meanIntensity = b[1].meanIntensity
       /\ a[1].distribution = b[1].distribution
       /\ a[1].coherence = b[1].coherence
       /\ a[1].trend = b[1].trend
       /\ a[1].entryCount = b[1].entryCount
       /\ a[1].lastEntryAt = b[1].lastEntryAt

\* C9 as claimed: the second of two calls made in succession with no entry write in
\* between leaves the stored aggregate as the first left it.
C9_Original ==
    [][\A c \in Cells :
          (streak[c].n = 3 /\ streak'[c].n = 4) =>
              SameAggregate(aggregates[c], aggregates'[c])]_vars

\* C9 amended: the same, for two calls that read the same current time.
C9_IdempotentAtSameTime ==
    [][\A c \in Cells :
          (streak[c].n = 3 /\ streak'[c].n = 4 /\ streak[c].same) =>
              SameAggregate(aggregates[c], aggregates'[c])]_vars

\* C9 witness: two calls in succession at one time have both finished and an
\* aggregate is stored.
C9_Witness ==
    \E c \in Cells : streak[c].n = 4 /\ streak[c].same /\ aggregates[c] # <<>>

\* C10 as claimed: a recompute whose fetched entries have total weight zero ends with
\* the cell's aggregate absent (deleted if it was stored, not written otherwise).
C10_ZeroWeightIsEmpty ==
    [][\A k \in Finishing :
          (~IsEmptyFetch(k.emotions) /\ TotalWeight(k.emotions, k.now) = 0) =>
              aggregates'[k.h3Index] = <<>>]_vars

\* the kinds among the entries a recompute fetched
FetchedKinds(k) == {k.emotions[i].emotion : i \in 1..Len(k.emotions)}

\* the recomputes of a step that write an aggregate
Upserting == {k \in Finishing : lastOutcome'[k.h3Index] = "upserted"}

\* C11 as claimed: a recompute whose fetched entries are all of one kind, with positive
\* total weight, stores an aggregate whose coherence is exactly 1.
C11_SingleKindCoherent ==
    [][\A k \in Finishing :
          (/\ ~IsEmptyFetch(k.emotions)
           /\ Cardinality(FetchedKinds(k)) = 1
           /\ TotalWeight(k.emotions, k.now) > 0) =>
              /\ aggregates'[k.h3Index] # <<>>
              /\ aggregates'[k.h3Index][1].coherence.exact
              /\ aggregates'[k.h3Index][1].coherence.value = Num(1)]_vars

\* x + y
Add(x, y) ==
    IF IsNaN(x) \/ IsNaN(y) THEN NaN
    ELSE Div(x.num * y.den + y.num * x.den, x.den * y.den)

\* the sum of the values of a distribution
RECURSIVE SumShares(_)
SumShares(distribution) ==
    IF distribution = {} THEN Num(0)
    ELSE LET d == CHOOSE x \in distribution : TRUE
         IN Add(d[2], SumShares(distribution \ {d}))

\* C12 as claimed: every stored aggregate has a distribution whose values sum to 100,
\* and a recompute stores, for exactly the kinds of its fetched entries, 100 times the
\* kind's summed weight over the total weight.
C12_DistributionSums ==
    [][/\ \A c \in Cells :
             aggregates'[c] = <<>> \/ SumShares(aggregates'[c][1].distribution) = Num(100)
       /\ \A k \in Upserting :
             aggregates'[k.h3Index][1].distribution =
                 {<<kind, Div(100 * EmotionCount(k.emotions, k.now, kind),
                              TotalWeight(k.emotions, k.now))>> : kind \in FetchedKinds(k)}]_vars

\* the kinds of the largest summed weight among fetched entries
HeaviestKinds(emotions, t) ==
    {a \in {emotions[i].emotion : i \in 1..Len(emotions)} :
        \A i \in 1..Len(emotions) :
            EmotionCount(emotions, t, a) >= EmotionCount(emotions, t, emotions[i].emotion)}

\* the kind of the first fetched entry whose kind is among the heaviest
FirstHeaviest(emotions, t) ==
    LET i == CHOOSE j \in 1..Len(emotions) :
                 /\ emotions[j].emotion \in HeaviestKinds(emotions, t)
                 /\ \A h \in 1..(j - 1) : emotions[h].emotion \notin HeaviestKinds(emotions, t)
    IN emotions[i].emotion

\* C13 as claimed: the dominantEmotion a recompute stores is a kind of the largest
\* summed weight, and among tied kinds the one met first in the fetched entries.
C13_DominantFirstOnTie ==
    [][\A k \in Upserting :
          aggregates'[k.h3Index][1].dominantEmotion = FirstHeaviest(k.emotions, k.now)]_vars

\* the step a call answers in, and the answers that reject a submission
Answers(op) == lastReply' # lastReply /\ lastReply'.op = op

Rejections == {"BAD_REQUEST", "TOO_MANY_REQUESTS"}

\* the rows of a user in a cell created in the calendar day of time t
StoredToday(userId, h3Index, t) ==
    {e \in entries : /\ e.userId = userId
                     /\ e.h3Index = h3Index
                     /\ e.createdAt >= StartOfDay(t)
                     /\ e.createdAt < StartOfDay(t) + DaySec}

\* C14: a submission answered with a rejection leaves entries, pending submissions,
\* timers, running recomputes and aggregates as they were; the daily limit is only
\* ever the answer for a valid cell holding DailyCellLimit rows of the user that day;
\* and a submission goes on to its create, and a row is created, only for a valid cell
\* and after a count below the limit.
C14_RejectedAddChangesNothing ==
    [][/\ (Answers("add") /\ lastReply'.code \in Rejections) =>
              /\ entries' = entries
              /\ pendingAdds' = pendingAdds
              /\ timers' = timers
              /\ tasks' = tasks
              /\ aggregates' = aggregates
       /\ (Answers("add") /\ lastReply'.code = "TOO_MANY_REQUESTS") =>
              /\ lastReply'.target \notin BadCells
              /\ Cardinality(StoredToday(lastReply'.caller, lastReply'.target, now))
                     >= DailyCellLimit
       /\ \A p \in BagToSet(pendingAdds') :
              CopiesIn(p, pendingAdds') > CopiesIn(p, pendingAdds) =>
                  /\ p.h3Index \notin BadCells
                  /\ Cardinality(StoredToday(p.userId, p.h3Index, now)) < DailyCellLimit
       /\ \A e \in entries' \ entries :
              /\ e.h3Index \notin BadCells
              /\ \E p \in BagToSet(pendingAdds) :
                     p.userId = e.userId /\ p.h3Index = e.h3Index]_vars

\* C14 witness: the daily limit has just been the answer to a submission, the cell
\* holding DailyCellLimit rows of the submitter and nothing half-way.
C14_Witness ==
    /\ lastReply.op = "add"
    /\ lastReply.code = "TOO_MANY_REQUESTS"
    /\ Cardinality(StoredToday(lastReply.caller, lastReply.target, now)) = DailyCellLimit
    /\ pendingAdds = EmptyBag

\* a step of a recompute: a callback leaves the timers, or a call starts or ends
RecomputeMoves ==
    \/ tasks' # tasks
    \/ \E t \in BagToSet(timers) : CopiesIn(t, timers') < CopiesIn(t, timers)

\* C15: no step of a recompute, whether it fetches, fails or finishes, removes or
\* alters a stored entry or a submission under way; and the step that creates an entry
\* completes with the recompute only scheduled, due TimerDelaySec later.
C15_RecomputeNeverTouchesEntries ==
    [][/\ RecomputeMoves =>
              /\ entries' = entries
              /\ pendingAdds' = pendingAdds
              /\ nextId' = nextId
       /\ \A e \in entries' \ entries :
              /\ entries \subseteq entries'
              /\ \E t \in BagToSet(timers') :
                     /\ t.h3Index = e.h3Index
                     /\ t.due = now + TimerDelaySec
                     /\ CopiesIn(t, timers') > CopiesIn(t, timers)]_vars

\* C15 witness: the recompute of a cell has ended in error with nothing more pending,
\* and the cell's submitted entry is stored, with no aggregate.
C15_Witness ==
    \E c \in Cells :
        /\ lastOutcome[c] \in Errors
        /\ Pending(c) = 0
        /\ StoredIn(c) # {}
        /\ aggregates[c] = <<>>

\* C17: a callback that leaves the timers without a call left running has failed in its
\* fetch: the error is its outcome and every aggregate is as it was; and a step changes the aggregates only as the end of
\* one recompute, in that recompute's cell alone, to absent or to the upsert of the
\* whole computed row.
C17_FetchErrorLeavesAggregate ==
    [][/\ \A t \in BagToSet(timers) :
              (CopiesIn(t, timers') < CopiesIn(t, timers) /\ tasks' = tasks) =>
                  /\ lastOutcome'[t.h3Index] = "fetch error"
                  /\ aggregates' = aggregates
       /\ aggregates' # aggregates =>
              \E k \in Finishing :
                  /\ \A c \in Cells \ {k.h3Index} : aggregates'[c] = aggregates[c]
                  /\ \/ aggregates'[k.h3Index] = <<>>
                     \/ aggregates'[k.h3Index] =
                            Upsert(aggregates[k.h3Index],
                                   ComputeAggregate(k.h3Index, k.emotions, k.now), now)]_vars

\* C17 witness: the last recompute of a cell failed in its fetch and the aggregate
\* stored before it is still there.
C17_Witness ==
    \E c \in Cells : lastOutcome[c] = "fetch error" /\ aggregates[c] # <<>>

\* at or before time t, as the sweep's contract words it
DueBy(e, t) == e.expiresAt # Null /\ e.expiresAt <= t

\* C16 as claimed: a sweep leaves no stored entry whose expiresAt is at or before the
\* current time, removes only such entries, and answers the number it removed.
C16_SweepRemovesAtOrBefore ==
    [][Answers("cleanup") =>
          /\ \A e \in entries' : ~DueBy(e, now)
          /\ \A e \in entries \ entries' : DueBy(e, now)
          /\ lastReply'.count = Cardinality(entries \ entries')]_vars

\* C18: a delete call answers NOT_FOUND exactly for an id no entry has and FORBIDDEN
\* exactly for an entry of another user, in both cases with every entry and timer as
\* it was; it answers success exactly for an entry of the caller, that entry alone is
\* removed and one recompute of its cell is scheduled; and entries only ever leave
\* the store by such a delete or by the sweep.
C18_DeleteOnlyByOwner ==
    [][/\ Answers("delete") =>
              LET hit == {e \in entries : e.id = lastReply'.count}
              IN CASE lastReply'.code = "NOT_FOUND" ->
                          hit = {} /\ entries' = entries /\ timers' = timers
                   [] lastReply'.code = "FORBIDDEN" ->
                          /\ \E e \in hit : e.userId # lastReply'.caller
                          /\ entries' = entries
                          /\ timers' = timers
                   [] lastReply'.code = "OK" ->
                          \E e \in hit :
                              /\ e.userId = lastReply'.caller
                              /\ entries' = entries \ {e}
                              /\ timers' = timers (+)
                                     One([h3Index |-> e.h3Index, due |-> now + TimerDelaySec])
       /\ entries \ entries' # {} =>
              \/ Answers("cleanup")
              \/ Answers("delete") /\ lastReply'.code = "OK"]_vars

\* C18 witness: a user has just been answered FORBIDDEN for an entry of another user,
\* and that entry is stored.
C18_Witness ==
    /\ lastReply.op = "delete"
    /\ lastReply.code = "FORBIDDEN"
    /\ \E e \in entries : e.id = lastReply.count /\ e.userId # lastReply.caller

\* ttlHours brought into the range the schema names
ClampTtl(ttlHours) ==
    IF ttlHours < MinTtlHours THEN MinTtlHours
    ELSE IF ttlHours > MaxTtlHours THEN MaxTtlHours ELSE ttlHours

\* C20 as claimed: a created entry expires at its creation time plus its ttlHours
\* clamped into MinTtlHours..MaxTtlHours, or never if ttlHours is absent; and an
\* out-of-range ttlHours is no cause of rejection: a submission is answered
\* BAD_REQUEST only for a cell identifier that is not valid.
C20_TtlClamped ==
    [][/\ \A e \in entries' \ entries :
              \E p \in BagToSet(pendingAdds) :
                  /\ p.userId = e.userId
                  /\ p.h3Index = e.h3Index
                  /\ e.expiresAt = IF p.input.ttlHours = Null THEN Null
                                   ELSE now + ClampTtl(p.input.ttlHours) * HourSec
       /\ (Answers("add") /\ lastReply'.code = "BAD_REQUEST") =>
              lastReply'.target \in BadCells]_vars

\* C19 as claimed: a getTiles request whose bounds give more than MaxTileCells cells is
\* answered with an error, no tile list is built from more than MaxTileCells cells,
\* and a request whose cell enumeration threw is not answered with success.
C19_TilesCappedAndFailuresSurface ==
    [][Answers("getTiles") =>
          /\ lastReply'.count > MaxTileCells => lastReply'.code = "BAD_REQUEST"
          /\ lastReply'.code = "OK" =>
                 lastReply'.count <= MaxTileCells /\ lastReply'.tiles <= MaxTileCells
          /\ lastReply'.target = "threw" => lastReply'.code # "OK"]_vars

\* the keys of a stored distribution whose share is a positive number
PositiveShares(distribution) == {d \in distribution : ~IsNaN(d[2]) /\ d[2].num > 0}

\* C21 as claimed: the coherence of every stored aggregate is a number from 0 to 1,
\* below 1 when two or more kinds carry weight, and 0 when the kinds that carry
\* weight, two or more, carry it evenly.
C21_CoherenceInRange ==
    \A c \in Cells :
        aggregates[c] # <<>> =>
            LET co == aggregates[c][1].coherence
                positive == PositiveShares(aggregates[c][1].distribution)
            IN /\ co.exact =>
                      /\ ~IsNaN(co.value)
                      /\ ~Less(co.value, Num(0))
                      /\ ~Less(Num(1), co.value)
               /\ Cardinality(positive) >= 2 => ~(co.exact /\ co.value = Num(1))
               /\ (Cardinality(positive) >= 2 /\ \A d1, d2 \in positive : d1[2] = d2[2]) =>
                      co.exact /\ co.value = Num(0)

\* C26 as claimed: at no time does a user hold more than DailyCellLimit stored entries
\* created on the current calendar day in one cell, concurrent submissions included.
C26_AtMostLimitStoredToday ==
    \A u \in Users, c \in Cells : Cardinality(StoredToday(u, c, now)) <= DailyCellLimit

(***************************************************************************)
(* Recomputes of two cells.                                                *)
(***************************************************************************)
PairScope ==
    [users |-> Users, submitters |-> {"u1"}, cells |-> Cells,
     inputs |-> {Permanent, Volatile}, quota |-> MaxEntries]

InitCells ==
    /\ now = 0
    /\ advances = 0
    /\ entries \in UNION {Stores(PairScope, n) : n \in 0..MaxEntries}
    /\ nextId = Cardinality(entries) + 1
    /\ aggregates = [c \in Cells |-> <<>>]
    /\ accounts = Users
    /\ pendingAdds = EmptyBag
    /\ timers = EmptyBag
    /\ tasks = EmptyBag
    /\ acceptsNaN \in BOOLEAN
    /\ bulkCalls = 0
    /\ lastOutcome = [c \in Cells |-> "none"]
    /\ acceptedToday = [u \in Users |-> [c \in Cells |->
                          Cardinality({e \in entries : e.userId = u /\ e.h3Index = c})]]
    /\ streak = [c \in Cells |-> NoStreak]
    /\ traced = FALSE
    /\ lastReply = NoReply

NextCells == BulkStep(PairScope) \/ EngineStep(PairScope)

\* direct recomputes of both cells, interleaved at will with each other, the sweeper
\* and the clock
SpecCells == InitCells /\ [][NextCells]_vars

\* what a call that ran alone from its fetch to its write would leave in its cell
SoloResult(k, old, t) ==
    IF IsEmptyFetch(k.emotions) THEN DeleteAggregate(old)
    ELSE Upsert(old, ComputeAggregate(k.h3Index, k.emotions, k.now), t)

\* C22: updateAggregateForCell(c) reads only the entries of c and writes only the
\* aggregate of c; it changes no entry and no other cell's aggregate, whatever calls
\* of the other cell are in flight, and what it leaves in c is what the call running
\* alone would leave (or nothing new, when the store refuses the row).
C22_RecomputeWritesOnlyItsCell ==
    [][/\ \A k \in Fetching :
            /\ entries' = entries
            /\ aggregates' = aggregates
            /\ \A i \in 1..Len(k.emotions) : k.emotions[i].h3Index = k.h3Index
       /\ \A k \in Finishing :
            /\ entries' = entries
            /\ \A c \in Cells \ {k.h3Index} : aggregates'[c] = aggregates[c]
            /\ aggregates'[k.h3Index] =
                  IF lastOutcome'[k.h3Index] = "error" THEN aggregates[k.h3Index]
                  ELSE SoloResult(k, aggregates[k.h3Index], now)]_vars

\* c1's aggregate was written while a call of c2, which had fetched its rows before
\* that write, was still in flight
C22_Witness ==
    /\ aggregates["c1"] # <<>>
    /\ \E k \in BagToSet(tasks) :
          /\ k.h3Index = "c2"
          /\ ~IsEmptyFetch(k.emotions)
          /\ k.now < aggregates["c1"][1].updatedAt

(***************************************************************************)
(* Recomputes of a cell whose rows have aged: up to just past the 30 days  *)
(* of the trend's older bucket.                                            *)
(***************************************************************************)
\* ages on both sides of the two bucket bounds, in seconds
Ages ==
    {0, RecentDays * DaySec, RecentDays * DaySec + 1, OlderDays * DaySec,
     OlderDays * DaySec + 1}

Horizon == OlderDays * DaySec + 1

AgedScope ==
    [users |-> Users, submitters |-> {"u1"}, cells |-> {"c1"},
     inputs |-> {Permanent, NoDwell, LongDwell, Secret, Volatile}, quota |-> MaxEntries]

\* the stores emotions.add can have built by time Horizon: rows 1..n, each created
\* at one of the ages
RECURSIVE AgedStores(_, _)
AgedStores(scope, n) ==
    IF n = 0 THEN {{}}
    ELSE {S \cup {NewEntry([userId |-> u, h3Index |-> c, input |-> input], n, Horizon - a)} :
            S \in AgedStores(scope, n - 1), u \in scope.submitters, c \in scope.cells,
            input \in scope.inputs, a \in Ages}

InitAges ==
    /\ now = Horizon
    /\ advances = 0
    /\ entries \in UNION {AgedStores(AgedScope, n) : n \in 0..MaxEntries}
    /\ nextId = Cardinality(entries) + 1
    /\ aggregates = [c \in Cells |-> <<>>]
    /\ accounts = Users
    /\ pendingAdds = EmptyBag
    /\ timers = EmptyBag
    /\ tasks = EmptyBag
    /\ acceptsNaN \in BOOLEAN
    /\ bulkCalls = 0
    /\ lastOutcome = [c \in Cells |-> "none"]
    /\ acceptedToday = [u \in Users |-> [c \in Cells |-> TodayCount(u, c, now)]]
    /\ streak = [c \in Cells |-> NoStreak]
    /\ traced = FALSE
    /\ lastReply = NoReply

\* the rest of a call after its fetch
FinishStep ==
    \/ \E k \in BagToSet(tasks) : FinishDelete(k)
    \/ \E k \in BagToSet(tasks) : FinishUpsert(k)
    \/ \E k \in BagToSet(tasks) : FinishUpsertRefused(k)

NextAges == BulkStep(AgedScope) \/ FinishStep

\* direct recomputes of one cell on every aged store of up to MaxEntries rows
SpecAges == InitAges /\ [][NextAges]_vars

\* the rows of a fetch aged from more than lo to at most hi seconds when it was made
AgedBetween(k, lo, hi) ==
    {i \in 1..Len(k.emotions) :
        /\ k.now - k.emotions[i].createdAt > lo
        /\ k.now - k.emotions[i].createdAt <= hi}

RECURSIVE SumValence(_, _)
SumValence(k, I) ==
    IF I = {} THEN 0
    ELSE LET i == CHOOSE x \in I : TRUE
         IN k.emotions[i].valence + SumValence(k, I \ {i})

\* plain mean of the valences (kept in tenths) of the rows I of a fetch
PlainMean(k, I) == Div(SumValence(k, I), 10 * Cardinality(I))

\* C23: the stored trend is 0 when the fetch has no row aged at most 7 days or none
\* aged more than 7 and at most 30 days; otherwise it is twice the difference of the
\* plain mean valences of the two groups, clamped to [-1, 1].  Rows older than 30
\* days and the weights of the rows play no part.
C23_TrendOfBuckets ==
    [][\A k \in Upserting :
          LET recent == AgedBetween(k, -1, RecentDays * DaySec)
              older == AgedBetween(k, RecentDays * DaySec, OlderDays * DaySec)
              stored == aggregates'[k.h3Index][1].trend
          IN IF recent = {} \/ older = {} THEN stored = Num(0)
             ELSE LET twice == Scale(Sub(PlainMean(k, recent), PlainMean(k, older)), 2)
                  IN /\ Less(twice, Num(-1)) => stored = Num(-1)
                     /\ Less(Num(1), twice) => stored = Num(1)
                     /\ (~Less(twice, Num(-1)) /\ ~Less(Num(1), twice)) => stored = twice]_vars

\* a stored trend that is neither 0 nor clamped, from a row aged exactly 7 days and
\* a row aged one second more
C23_Witness ==
    /\ aggregates["c1"] # <<>>
    /\ aggregates["c1"][1].trend \notin {Num(0), Num(1), Num(-1)}
    /\ \E e1, e2 \in entries :
          /\ now - e1.createdAt = RecentDays * DaySec
          /\ now - e2.createdAt = RecentDays * DaySec + 1

\* C24 as claimed: the presence weight of a fetched row (in units of 1/PresenceDivisor)
\* grows linearly from 0 with dwellSeconds, never exceeds 2, and is at its cap of 2
\* from dwellSeconds = 300 on, so that rows of 300 and of 600 seconds weigh the same.
C24_CapReachedAtFiveMinutes ==
    \A k \in BagToSet(tasks) :
        \A i \in 1..Len(k.emotions) :
            LET e == k.emotions[i]
            IN /\ PresenceWeight(e) <= 2 * PresenceDivisor
               /\ e.dwellSeconds < 300 => PresenceWeight(e) = e.dwellSeconds
               /\ e.dwellSeconds >= 300 => PresenceWeight(e) = 2 * PresenceDivisor
               /\ \A j \in 1..Len(k.emotions) :
                     (e.dwellSeconds = 300 /\ k.emotions[j].dwellSeconds = 600)
                         => PresenceWeight(e) = PresenceWeight(k.emotions[j])

\* C25: an aggregate written by updateAggregateForCell has entryCount equal to the
\* number of live rows fetched for the cell, each counted once and at least one, and
\* lastEntryAt equal to the greatest createdAt among them.
C25_CountAndLastEntry ==
    [][\A k \in Upserting :
          LET stored == aggregates'[k.h3Index][1]
              fetched == {e \in StoredIn(k.h3Index) : Unexpired(e, k.now)}
          IN /\ stored.entryCount = Cardinality(fetched)
             /\ stored.entryCount = Len(k.emotions)
             /\ stored.entryCount >= 1
             /\ \A e \in fetched : e.createdAt <= stored.lastEntryAt
             /\ \E e \in fetched : e.createdAt = stored.lastEntryAt]_vars

\* an aggregate of two rows, the second created after the first
C25_Witness ==
    /\ aggregates["c1"] # <<>>
    /\ aggregates["c1"][1].entryCount = 2
    /\ \E e1, e2 \in StoredIn("c1") :
          /\ e1.id < e2.id
          /\ e1.createdAt < e2.createdAt
          /\ aggregates["c1"][1].lastEntryAt = e2.createdAt

\* the rows with every visibility set to PUBLIC
AsPublic(emotions) ==
    [i \in 1..Len(emotions) |-> [emotions[i] EXCEPT !.visibility = "PUBLIC"]]

\* C30: updateAggregateForCell fetches and weighs every live row of the cell whatever
\* its visibility: the aggregate it writes is the one it would write were every
\* PRIVATE row of the cell PUBLIC, in entryCount, distribution, dominantEmotion, the
\* means and every other field.
C30_PrivateWeighsAsPublic ==
    [][/\ \A k \in Fetching :
            {k.emotions[i] : i \in 1..Len(k.emotions)} =
                {e \in StoredIn(k.h3Index) : Unexpired(e, now)}
       /\ \A k \in Upserting :
            LET rows == SeqById({e \in StoredIn(k.h3Index) : Unexpired(e, k.now)})
            IN aggregates'[k.h3Index] =
                  Upsert(aggregates[k.h3Index],
                         ComputeAggregate(k.h3Index, AsPublic(rows), k.now), now)]_vars

\* the stored aggregate of a cell with a JOY row counts two rows and is dominated by
\* the SADNESS of a PRIVATE row
C30_Witness ==
    /\ aggregates["c1"] # <<>>
    /\ aggregates["c1"][1].entryCount = 2
    /\ aggregates["c1"][1].dominantEmotion = "SADNESS"
    /\ \E e1, e2 \in StoredIn("c1") :
          /\ e1.visibility = "PRIVATE" /\ e1.emotion = "SADNESS"
          /\ e2.visibility = "PUBLIC" /\ e2.emotion = "JOY"

(***************************************************************************)
(* Account deletion against recomputes.                                    *)
(***************************************************************************)
AccountScope ==
    [users |-> Users, submitters |-> Users, cells |-> Cells,
     inputs |-> {Permanent}, quota |-> MaxEntries]

InitAccount ==
    /\ now = 0
    /\ advances = 0
    /\ entries \in UNION {Stores(AccountScope, n) : n \in 0..MaxEntries}
    /\ nextId = Cardinality(entries) + 1
    /\ aggregates = [c \in Cells |-> <<>>]
    /\ accounts = Users
    /\ pendingAdds = EmptyBag
    /\ timers = EmptyBag
    /\ tasks = EmptyBag
    /\ acceptsNaN \in BOOLEAN
    /\ bulkCalls = 0
    /\ lastOutcome = [c \in Cells |-> "none"]
    /\ acceptedToday = [u \in Users |-> [c \in Cells |-> TodayCount(u, c, now)]]
    /\ streak = [c \in Cells |-> NoStreak]
    /\ traced = TRUE
    /\ lastReply = NoReply

AccountStep(scope) == \E u \in scope.users : deleteAccount(u)

NextAccount == AccountStep(AccountScope) \/ BulkStep(AccountScope) \/ FinishStep

\* users deleting their accounts while the cells are recomputed directly
SpecAccount == InitAccount /\ [][NextAccount]_vars

\* C27 as claimed: a deleteAccount step that takes entries out of a cell leaves a
\* recompute of that cell scheduled or running that was not there before, so that the
\* cell is recomputed without anyone asking for it.
C27_DeletedAccountRecomputes ==
    [][\A u \in Users :
          (u \in accounts /\ u \notin accounts') =>
              \A c \in Cells :
                  (\E e \in StoredIn(c) : e.userId = u) => PendingAfter(c) > Pending(c)]_vars

(***************************************************************************)
(* Reads of a cell by its visitors, against the sweeper and the clock.     *)
(***************************************************************************)
ReadScope ==
    [users |-> Users, submitters |-> Users, cells |-> Cells,
     inputs |-> {Volatile, Secret}, quota |-> MaxEntries]

Limits == {1, DefaultLimit}

InitRead ==
    /\ now = 0
    /\ advances = 0
    /\ entries \in UNION {Stores(ReadScope, n) : n \in 0..MaxEntries}
    /\ nextId = Cardinality(entries) + 1
    /\ aggregates = [c \in Cells |-> <<>>]
    /\ accounts = Users
    /\ pendingAdds = EmptyBag
    /\ timers = EmptyBag
    /\ tasks = EmptyBag
    /\ acceptsNaN \in BOOLEAN
    /\ bulkCalls = 0
    /\ lastOutcome = [c \in Cells |-> "none"]
    /\ acceptedToday = [u \in Users |-> [c \in Cells |-> TodayCount(u, c, now)]]
    /\ streak = [c \in Cells |-> NoStreak]
    /\ traced = TRUE
    /\ lastReply = NoReply

ReadStep(scope) ==
    \/ \E caller \in (scope.users \cap accounts) \cup {Anonymous}, c \in BadCells,
          includePrivate \in BOOLEAN : GetByCellInvalid(caller, c, includePrivate)
    \/ \E caller \in (scope.users \cap accounts) \cup {Anonymous}, c \in scope.cells,
          includePrivate \in BOOLEAN, limit \in Limits :
              GetByCell(caller, c, includePrivate, limit)

ClockStep ==
    \/ cleanupExpiredEmotions
    \/ \E d \in ClockSteps : Advance(d)

NextRead == ReadStep(ReadScope) \/ ClockStep

\* reads of the cells by both users and by an anonymous visitor, as time passes
SpecRead == InitRead /\ [][NextRead]_vars

\* C28 as claimed: every row getByCell returns is live at the time of the query,
\* whoever asks and whatever includePrivate is.
C28_OnlyLiveRowsReturned ==
    [][Answers("getByCell") =>
          \A e \in lastReply'.rows : Unexpired(e, now)]_vars

\* C29: every row getByCell returns is a stored row of the requested cell; a PRIVATE
\* row is returned only to its owner, signed in and asking with includePrivate, so an
\* anonymous caller and a caller with includePrivate = false receive PUBLIC rows only.
C29_PrivateOnlyToOwner ==
    [][Answers("getByCell") =>
          LET r == lastReply'
          IN \A e \in r.rows :
                /\ e \in entries
                /\ e.h3Index = r.target
                /\ e.visibility \in {"PUBLIC", "PRIVATE"}
                /\ e.visibility = "PRIVATE" =>
                       /\ r.includePrivate
                       /\ r.caller # Anonymous
                       /\ e.userId = r.caller]_vars

\* u1, asking with includePrivate, was handed an own PRIVATE row from a cell that also
\* holds a PRIVATE row of u2, which was held back
C29_Witness ==
    /\ lastReply.op = "getByCell"
    /\ lastReply.caller = "u1"
    /\ lastReply.includePrivate
    /\ \E e \in lastReply.rows : e.visibility = "PRIVATE" /\ e.userId = "u1"
    /\ \E e \in StoredIn(lastReply.target) :
          e.visibility = "PRIVATE" /\ e.userId = "u2" /\ e \notin lastReply.rows
====
